---- MODULE Spec2Model ----
(***************************************************************************)
(* cli-wrapped: shell-history statistics (src/src/shell.rs, src/src/main.rs) *)
(*                                                                         *)
(* Text is a sequence of one-character strings.  A history file is a       *)
(* sequence of bytes; BAD stands for a byte that is not valid UTF-8.       *)
(* Option<T> is <<>> (None) or <<v>> (Some(v)).  A HashMap<String, usize>  *)
(* is a function from its keys (texts) to their counts.                    *)
(***************************************************************************)
EXTENDS Integers, Sequences, FiniteSets, TLC

VARIABLES
    shell_type,        \* Shell.shell_type
    invocation_count,  \* Shell.invocation_count : Option<usize>
    home,              \* what dirs::home_dir() answers in this process
    file_exists,       \* whether the history file exists at the located path
    file,              \* the bytes of the history file
    op,                \* the operation that returned last
    result,            \* what it returned: [kind, path]
    ret,               \* the value inside Ok(..), <<>> otherwise
    agg_lines,         \* lines read by the latest successful aggregation call
    main_pc,           \* where main() is / how the process ended
    stdout             \* what main() printed

vars == <<shell_type, invocation_count, home, file_exists, file,
          op, result, ret, agg_lines, main_pc, stdout>>

---------------------------------------------------------------------------
(* Bytes and bounds *)

LF == "\n"
CR == "\r"
TAB == "\t"
SP == " "
EQ == "="
BAD == "0xFF"

\* longest history file, in bytes, of the frequency specification
MaxFileLen == 5
\* longest history file, in bytes, of the session specification
MaxSessionLen == 2
\* most repetitions of one line in a file of the ranking specification
MaxRepeat == 2

FileBytes == {"a", EQ, SP, TAB, LF, CR, BAD}
SessionBytes == {"a", LF, BAD}

None == <<>>
Some(v) == <<v>>

Min(a, b) == IF a <= b THEN a ELSE b

SeqsUpTo(S, n) == UNION {[1..k -> S] : k \in 0..n}

---------------------------------------------------------------------------
(* Errors and results *)

Ok == [kind |-> "Ok", path |-> ""]
FindError == [kind |-> "FindError", path |-> ""]
OpenError(p) == [kind |-> "OpenError", path |-> p]
InvalidUTF8 == [kind |-> "InvalidUTF8", path |-> ""]
ReadError == [kind |-> "ReadError", path |-> ""]
CountError == [kind |-> "CountError", path |-> ""]

ShellTypes == {"Zsh", "Bash"}

\* dirs::home_dir(): no home directory, a home that is text, a home that is
\* not valid UTF-8
NoHome == "none"
TextHome == "/home/u"
RawHome == "/home/0xFF"
Homes == {NoHome, TextHome, RawHome}

\* Path::to_str: the path as text, None when it is not valid UTF-8
to_str(path) ==
    IF path[1] = RawHome THEN None ELSE Some(path)

\* ShellType::find_history_path
find_history_path(st, h) ==
    IF h = NoHome
    THEN [ok |-> FALSE, err |-> FindError, path |-> <<>>]
    ELSE [ok |-> TRUE, err |-> Ok,
          path |-> IF st = "Zsh" THEN <<h, ".zsh_history">>
                                 ELSE <<h, ".bash_history">>]

\* the closure given to map_err
open_failure_swapped(history_path) ==
    IF to_str(history_path) # None THEN InvalidUTF8
    ELSE OpenError(history_path)

open_failure(history_path) ==
    IF to_str(history_path) # None THEN OpenError(to_str(history_path)[1])
    ELSE InvalidUTF8

\* ShellType::open_history_file: Ok (the file is open) or the error
open_history_file(st, h, exists) ==
    LET found == find_history_path(st, h) IN
    IF ~found.ok THEN found.err
    ELSE IF exists THEN Ok
    ELSE open_failure(found.path)

---------------------------------------------------------------------------
(* BufRead::lines and collect *)

\* index of the first LF of bytes at or after i, 0 when there is none
RECURSIVE find_lf(_, _)
find_lf(bytes, i) ==
    IF i > Len(bytes) THEN 0
    ELSE IF bytes[i] = LF THEN i
    ELSE find_lf(bytes, i + 1)

HasBad(text) == \E i \in 1..Len(text) : text[i] = BAD

\* one item of the iterator: the bytes read up to and with the LF
line_item(raw) ==
    IF HasBad(raw) THEN [ok |-> FALSE, text |-> <<>>]
    ELSE LET n == Len(raw)
             a == IF n > 0 /\ raw[n] = LF THEN SubSeq(raw, 1, n - 1) ELSE raw
             m == Len(a)
             b == IF n > 0 /\ raw[n] = LF /\ m > 0 /\ a[m] = CR
                  THEN SubSeq(a, 1, m - 1) ELSE a
         IN [ok |-> TRUE, text |-> b]

\* BufReader::new(file).lines(), run to the end of the file
RECURSIVE lines(_)
lines(bytes) ==
    IF Len(bytes) = 0 THEN <<>>
    ELSE LET j == find_lf(bytes, 1)
             e == IF j = 0 THEN Len(bytes) ELSE j
         IN <<line_item(SubSeq(bytes, 1, e))>>
            \o lines(SubSeq(bytes, e + 1, Len(bytes)))

\* .collect::<std::io::Result<Vec<String>>>().map_err(|_| ReadError)
collect(items) ==
    IF \E i \in 1..Len(items) : ~items[i].ok
    THEN [ok |-> FALSE, vec |-> <<>>]
    ELSE [ok |-> TRUE, vec |-> [i \in 1..Len(items) |-> items[i].text]]

---------------------------------------------------------------------------
(* The line classifier of command_frequency *)

\* line.split(' '): every piece between separators, empty ones included
RECURSIVE split(_, _)
split(text, sep) ==
    LET hit == {i \in 1..Len(text) : text[i] = sep} IN
    IF hit = {} THEN <<text>>
    ELSE LET i == CHOOSE x \in hit : \A y \in hit : x <= y
         IN <<SubSeq(text, 1, i - 1)>> \o split(SubSeq(text, i + 1, Len(text)), sep)

contains(text, c) == \E i \in 1..Len(text) : text[i] = c

\* .filter(|arg| !arg.contains('=') && !arg.is_empty())
keep_arg_no_filter(arg) == Len(arg) # 0

keep_arg(arg) == ~contains(arg, EQ) /\ Len(arg) # 0

\* .filter(..).nth(0)
command_of(line) ==
    LET args == split(line, SP)
        kept == {i \in 1..Len(args) : keep_arg(args[i])}
    IN IF kept = {} THEN None
       ELSE Some(args[CHOOSE x \in kept : \A y \in kept : x <= y])

\* *freq.entry(key).or_insert(0) += 1
entry_add_from_one(freq, key) ==
    IF key \in DOMAIN freq
    THEN [freq EXCEPT ![key] = @ + 1]
    ELSE [k \in DOMAIN freq \cup {key} |-> IF k = key THEN 2 ELSE freq[k]]

entry_add(freq, key) ==
    IF key \in DOMAIN freq
    THEN [freq EXCEPT ![key] = @ + 1]
    ELSE [k \in DOMAIN freq \cup {key} |-> IF k = key THEN 1 ELSE freq[k]]

\* the for_each of command_frequency, from the i-th line on
RECURSIVE command_each_all(_, _, _)
command_each_all(vec, i, freq) ==
    IF i > Len(vec) THEN freq
    ELSE LET command == command_of(vec[i]) IN
         command_each_all(vec, i + 1,
             entry_add(freq, IF command = None THEN <<>> ELSE command[1]))

RECURSIVE command_each(_, _, _)
command_each(vec, i, freq) ==
    IF i > Len(vec) THEN freq
    ELSE LET command == command_of(vec[i]) IN
         command_each(vec, i + 1,
             IF command = None THEN freq ELSE entry_add(freq, command[1]))

\* the for_each of invocation_frequency, from the i-th line on
RECURSIVE invocation_each_distinct(_, _, _)
invocation_each_distinct(vec, i, acc) ==
    IF i > Len(vec) THEN acc
    ELSE invocation_each_distinct(vec, i + 1,
             [freq |-> entry_add(acc.freq, vec[i]),
              count |-> IF vec[i] \in DOMAIN acc.freq THEN acc.count
                        ELSE acc.count + 1])

RECURSIVE invocation_each(_, _, _)
invocation_each(vec, i, acc) ==
    IF i > Len(vec) THEN acc
    ELSE invocation_each(vec, i + 1,
             [freq |-> entry_add(acc.freq, vec[i]), count |-> acc.count + 1])

---------------------------------------------------------------------------
(* The operations of Shell.  Each answers [res, val, invocation_count]:   *)
(* the Result's kind, the value inside Ok, and the field after the call.  *)

\* impl From<ShellType> for Shell
from(value) == [shell_type |-> value, invocation_count |-> None]

\* Shell::commands_ran
commands_ran(count, st, h, exists, bytes) ==
    LET found == find_history_path(st, h) IN
    IF ~found.ok THEN [res |-> found.err, val |-> <<>>, invocation_count |-> count]
    ELSE IF ~exists
    THEN [res |-> IF to_str(found.path) # None
                  THEN OpenError(to_str(found.path)[1]) ELSE InvalidUTF8,
          val |-> <<>>, invocation_count |-> count]
    ELSE LET line_count == Len(lines(bytes)) IN
         [res |-> Ok, val |-> line_count, invocation_count |-> Some(line_count)]

\* Shell::command_frequency, as a draft that also caches the line count
command_frequency_caching(count, st, h, exists, bytes) ==
    LET opened == open_history_file(st, h, exists)
        read == collect(lines(bytes))
    IN IF opened # Ok THEN [res |-> opened, val |-> <<>>, invocation_count |-> count]
       ELSE IF ~read.ok
       THEN [res |-> ReadError, val |-> <<>>, invocation_count |-> count]
       ELSE [res |-> Ok, val |-> command_each(read.vec, 1, <<>>),
             invocation_count |-> Some(Len(read.vec))]

\* Shell::command_frequency (&self: the field is not written)
command_frequency(count, st, h, exists, bytes) ==
    LET opened == open_history_file(st, h, exists)
        read == collect(lines(bytes))
    IN IF opened # Ok THEN [res |-> opened, val |-> <<>>, invocation_count |-> count]
       ELSE IF ~read.ok
       THEN [res |-> ReadError, val |-> <<>>, invocation_count |-> count]
       ELSE [res |-> Ok, val |-> command_each(read.vec, 1, <<>>),
             invocation_count |-> count]

\* Shell::invocation_frequency
invocation_frequency(count, st, h, exists, bytes) ==
    LET opened == open_history_file(st, h, exists)
        read == collect(lines(bytes))
    IN IF opened # Ok THEN [res |-> opened, val |-> <<>>, invocation_count |-> count]
       ELSE IF ~read.ok
       THEN [res |-> ReadError, val |-> <<>>, invocation_count |-> count]
       ELSE LET acc == invocation_each(read.vec, 1, [freq |-> <<>>, count |-> 0])
            IN [res |-> Ok, val |-> acc.freq, invocation_count |-> Some(acc.count)]

---------------------------------------------------------------------------
(* The ranker of top_commands_and_invocations *)

\* the N of truncate(5)
TopN == 5

RECURSIVE SetToSeq(_)
SetToSeq(S) ==
    IF S = {} THEN <<>>
    ELSE LET x == CHOOSE y \in S : TRUE IN <<x>> \o SetToSeq(S \ {x})

Rotate(s, r) == [i \in 1..Len(s) |-> s[((i - 1 + r) % Len(s)) + 1]]

Reverse(s) == [i \in 1..Len(s) |-> s[Len(s) + 1 - i]]

\* HashMap::into_iter().collect::<Vec<(String, usize)>>(): the entries in an
\* order the hasher decides.  The orders drawn are every rotation of one
\* listing of the keys and of its reverse (every order, up to three keys).
into_iter(freq) ==
    LET ks == SetToSeq(DOMAIN freq)
        orders == IF ks = <<>> THEN {<<>>}
                  ELSE {Rotate(ks, r) : r \in 0..(Len(ks) - 1)}
                       \cup {Rotate(Reverse(ks), r) : r \in 0..(Len(ks) - 1)}
    IN {[i \in 1..Len(o) |-> <<o[i], freq[o[i]]>>] : o \in orders}

\* where a stable sort puts x among the already sorted entries: behind every
\* entry the comparator |(_, b), (_, d)| d.cmp(b) does not order after x
RECURSIVE insert_asc(_, _, _)
insert_asc(sorted, x, i) ==
    IF i > Len(sorted) THEN Append(sorted, x)
    ELSE IF sorted[i][2] > x[2]
    THEN SubSeq(sorted, 1, i - 1) \o <<x>> \o SubSeq(sorted, i, Len(sorted))
    ELSE insert_asc(sorted, x, i + 1)

RECURSIVE insert(_, _, _)
insert(sorted, x, i) ==
    IF i > Len(sorted) THEN Append(sorted, x)
    ELSE IF sorted[i][2] < x[2]
    THEN SubSeq(sorted, 1, i - 1) \o <<x>> \o SubSeq(sorted, i, Len(sorted))
    ELSE insert(sorted, x, i + 1)

\* v.sort_by(|(_, b), (_, d)| d.cmp(b)): stable, by count, descending
RECURSIVE sort_by(_, _, _)
sort_by(v, i, sorted) ==
    IF i > Len(v) THEN sorted
    ELSE sort_by(v, i + 1, insert(sorted, v[i], 1))

\* v.truncate(5)
truncate(v, n) == SubSeq(v, 1, Min(n, Len(v)))

\* .into_iter().map(|(a, _)| a).collect::<Vec<String>>()
keys_of(v) == [i \in 1..Len(v) |-> v[i][1]]

\* sort, truncate and drop the counts, for one iteration order
rank(entries) == keys_of(truncate(sort_by(entries, 1, <<>>), TopN))

---------------------------------------------------------------------------
(* The history file as other processes change it *)

FsChanges(alphabet) ==
    {<<"none", "">>, <<"remove", "">>, <<"truncate", "">>}
    \cup {<<"append", b>> : b \in alphabet}

\* the file system after one change: [exists, bytes]
fs_after(change, exists, bytes, maxlen) ==
    CASE change[1] = "none" -> [exists |-> exists, bytes |-> bytes]
      [] change[1] = "remove" -> [exists |-> FALSE, bytes |-> <<>>]
      [] change[1] = "truncate" -> [exists |-> TRUE, bytes |-> <<>>]
      [] OTHER -> IF exists /\ Len(bytes) < maxlen
                  THEN [exists |-> TRUE, bytes |-> Append(bytes, change[2])]
                  ELSE [exists |-> exists, bytes |-> bytes]

\* Shell::top_commands_and_invocations that puts the field back on an error
top_commands_and_invocations_undo(count, st, h, exists, bytes, exists2, bytes2) ==
    LET inv == invocation_frequency(count, st, h, exists, bytes)
        cmd == command_frequency(inv.invocation_count, st, h, exists2, bytes2)
    IN IF inv.res # Ok THEN {[res |-> inv.res, val |-> <<>>, invocation_count |-> count]}
       ELSE IF cmd.res # Ok
       THEN {[res |-> cmd.res, val |-> <<>>, invocation_count |-> count]}
       ELSE {[res |-> Ok, val |-> <<rank(c), rank(i)>>,
              invocation_count |-> cmd.invocation_count] :
                 c \in into_iter(cmd.val), i \in into_iter(inv.val)}

\* Shell::top_commands_and_invocations: the file is read twice, as
\* (exists, bytes) and then as (exists2, bytes2); the answers it can give
top_commands_and_invocations(count, st, h, exists, bytes, exists2, bytes2) ==
    LET inv == invocation_frequency(count, st, h, exists, bytes)
        cmd == command_frequency(inv.invocation_count, st, h, exists2, bytes2)
    IN IF inv.res # Ok THEN {inv}
       ELSE IF cmd.res # Ok
       THEN {[res |-> cmd.res, val |-> <<>>,
              invocation_count |-> cmd.invocation_count]}
       ELSE {[res |-> Ok, val |-> <<rank(c), rank(i)>>,
              invocation_count |-> cmd.invocation_count] :
                 c \in into_iter(cmd.val), i \in into_iter(inv.val)}

---------------------------------------------------------------------------
(* Calls and steps *)

\* the lines of a file: one per LF, and one more for bytes after the last LF
NumLines(bytes) ==
    Cardinality({i \in 1..Len(bytes) : bytes[i] = LF})
    + (IF Len(bytes) > 0 /\ bytes[Len(bytes)] # LF THEN 1 ELSE 0)

Returned(name, r) ==
    /\ op' = name
    /\ result' = r.res
    /\ ret' = r.val
    /\ invocation_count' = r.invocation_count

CommandsRan ==
    /\ main_pc = "lib"
    /\ LET r == commands_ran(invocation_count, shell_type, home, file_exists, file)
       IN /\ Returned("commands_ran", r)
          /\ agg_lines' = IF r.res = Ok THEN Some(NumLines(file)) ELSE agg_lines
    /\ UNCHANGED <<shell_type, home, file_exists, file, main_pc, stdout>>

CommandFrequency ==
    /\ main_pc = "lib"
    /\ LET r == command_frequency(invocation_count, shell_type, home, file_exists, file)
       IN /\ Returned("command_frequency", r)
          /\ agg_lines' = IF r.res = Ok THEN Some(NumLines(file)) ELSE agg_lines
    /\ UNCHANGED <<shell_type, home, file_exists, file, main_pc, stdout>>

InvocationFrequency ==
    /\ main_pc = "lib"
    /\ LET r == invocation_frequency(invocation_count, shell_type, home, file_exists, file)
       IN /\ Returned("invocation_frequency", r)
          /\ agg_lines' = IF r.res = Ok THEN Some(NumLines(file)) ELSE agg_lines
    /\ UNCHANGED <<shell_type, home, file_exists, file, main_pc, stdout>>

\* top_commands_and_invocations; between its two reads of the file another
\* process makes one of `changes`
TopCommandsAndInvocations(changes, maxlen) ==
    /\ main_pc = "lib"
    /\ \E change \in changes :
         LET fs == fs_after(change, file_exists, file, maxlen)
             first == invocation_frequency(invocation_count, shell_type, home,
                                           file_exists, file)
         IN /\ \E r \in top_commands_and_invocations(invocation_count, shell_type,
                            home, file_exists, file, fs.exists, fs.bytes) :
                  /\ Returned("top_commands_and_invocations", r)
                  /\ agg_lines' = IF r.res = Ok THEN Some(NumLines(fs.bytes))
                                  ELSE IF first.res = Ok THEN Some(NumLines(file))
                                  ELSE agg_lines
            /\ file_exists' = fs.exists
            /\ file' = fs.bytes
    /\ UNCHANGED <<shell_type, home, main_pc, stdout>>

\* another process removes, empties or appends to the history file
ChangeFile ==
    /\ main_pc = "lib"
    /\ \E change \in FsChanges(SessionBytes) :
         LET fs == fs_after(change, file_exists, file, MaxSessionLen)
         IN /\ <<fs.exists, fs.bytes>> # <<file_exists, file>>
            /\ file_exists' = fs.exists
            /\ file' = fs.bytes
    /\ UNCHANGED <<shell_type, invocation_count, home, op, result, ret,
                   agg_lines, main_pc, stdout>>

\* main(): Shell::from, command_frequency()?, the two println!, Ok(())
Main ==
    /\ main_pc = "start"
    /\ LET shell == from(shell_type)
           r == command_frequency(shell.invocation_count, shell.shell_type, home,
                                  file_exists, file)
       IN /\ Returned("command_frequency", r)
          /\ agg_lines' = IF r.res = Ok THEN Some(NumLines(file)) ELSE agg_lines
          /\ main_pc' = IF r.res # Ok THEN "exit_error"
                        ELSE IF r.invocation_count = None THEN "panic"
                        ELSE "exit_ok"
          /\ stdout' = IF r.res # Ok THEN <<>>
                       ELSE IF r.invocation_count = None THEN <<r.val>>
                       ELSE <<r.val, r.invocation_count[1]>>
    /\ UNCHANGED <<shell_type, home, file_exists, file>>

---------------------------------------------------------------------------
(* Specifications *)

Fresh ==
    /\ invocation_count = None
    /\ op = "from"
    /\ result = Ok
    /\ ret = <<>>
    /\ agg_lines = None
    /\ stdout = <<>>

\* one Shell used by a caller, while the history file changes under it
Init ==
    /\ Fresh
    /\ shell_type \in ShellTypes
    /\ home \in Homes
    /\ file_exists \in BOOLEAN
    /\ file \in SeqsUpTo(SessionBytes, MaxSessionLen)
    /\ ~file_exists => file = <<>>
    /\ main_pc = "lib"

Next ==
    \/ CommandsRan
    \/ CommandFrequency
    \/ InvocationFrequency
    \/ TopCommandsAndInvocations(FsChanges(SessionBytes), MaxSessionLen)
    \/ ChangeFile

Spec == Init /\ [][Next]_vars

\* one run of the command-line program
InitMain ==
    /\ Fresh
    /\ shell_type \in ShellTypes
    /\ home \in Homes
    /\ file_exists \in BOOLEAN
    /\ file \in SeqsUpTo(SessionBytes, MaxSessionLen)
    /\ ~file_exists => file = <<>>
    /\ main_pc = "start"

NextMain == Main

SpecMain == InitMain /\ [][NextMain]_vars

\* the frequency operations on every history file up to MaxFileLen bytes
InitFile ==
    /\ Fresh
    /\ shell_type = "Bash"
    /\ home = TextHome
    /\ file_exists = TRUE
    /\ file \in SeqsUpTo(FileBytes, MaxFileLen)
    /\ main_pc = "lib"

NextFile ==
    \/ CommandsRan
    \/ CommandFrequency
    \/ InvocationFrequency

SpecFile == InitFile /\ [][NextFile]_vars

\* the ranking on history files with up to six distinct lines
RankLines ==
    << <<"a">>, <<"b", SP, "x">>, <<EQ, SP, "c">>, <<"d">>, <<"e">>, <<"f">> >>

RECURSIVE Repeat(_, _)
Repeat(text, n) == IF n = 0 THEN <<>> ELSE text \o Repeat(text, n - 1)

RECURSIVE RankFile(_, _)
RankFile(times, i) ==
    IF i > Len(RankLines) THEN <<>>
    ELSE Repeat(Append(RankLines[i], LF), times[i]) \o RankFile(times, i + 1)

InitRank ==
    /\ Fresh
    /\ shell_type = "Bash"
    /\ home = TextHome
    /\ file_exists = TRUE
    /\ \E times \in [1..Len(RankLines) -> 0..MaxRepeat] : file = RankFile(times, 1)
    /\ main_pc = "lib"

\* the ranking is applied once to each file
NextRank == op = "from" /\ TopCommandsAndInvocations({<<"none", "">>}, 0)

SpecRank == InitRank /\ [][NextRank]_vars

---------------------------------------------------------------------------
(* What the claims speak of, stated without the code's own loops *)

\* the positions where a line of the file starts
LineStarts(bytes) == {s \in 1..Len(bytes) : s = 1 \/ bytes[s - 1] = LF}

\* the line that starts at s: up to the next LF, without the CR of a CR LF
RawLine(bytes, s) ==
    LET ends == {e \in s..Len(bytes) : bytes[e] = LF}
        e == IF ends = {} THEN Len(bytes) + 1
             ELSE CHOOSE x \in ends : \A y \in ends : x <= y
        body == SubSeq(bytes, s, e - 1)
    IN IF e <= Len(bytes) /\ Len(body) > 0 /\ body[Len(body)] = CR
       THEN SubSeq(body, 1, Len(body) - 1) ELSE body

\* the lines of the file, in order
RawLines(bytes) ==
    [n \in 1..NumLines(bytes) |->
        RawLine(bytes, CHOOSE s \in LineStarts(bytes) :
                          Cardinality({i \in 1..(s - 1) : bytes[i] = LF}) = n - 1)]

\* the first maximal run of non-separators of the line that holds no '='
FirstToken(line, seps) ==
    LET n == Len(line)
        runs == {p \in (1..n) \X (1..n) :
                    /\ p[1] <= p[2]
                    /\ \A k \in p[1]..p[2] : line[k] \notin seps /\ line[k] # EQ
                    /\ p[1] = 1 \/ line[p[1] - 1] \in seps
                    /\ p[2] = n \/ line[p[2] + 1] \in seps}
    IN IF runs = {} THEN None
       ELSE LET p == CHOOSE x \in runs : \A y \in runs : x[1] <= y[1]
            IN Some(SubSeq(line, p[1], p[2]))

\* how many lines fall under each first token
Tally(ls, seps) ==
    LET tok(i) == FirstToken(ls[i], seps)
        hits == {i \in 1..Len(ls) : tok(i) # None}
    IN [k \in {tok(i)[1] : i \in hits} |->
           Cardinality({i \in hits : tok(i) = Some(k)})]

RECURSIVE SumValues(_)
SumValues(f) ==
    IF DOMAIN f = {} THEN 0
    ELSE LET k == CHOOSE x \in DOMAIN f : TRUE
         IN f[k] + SumValues([x \in DOMAIN f \ {k} |-> f[x]])

\* the blank characters a history line is typed with
Whitespace == {SP, TAB}

---------------------------------------------------------------------------
(* Claims *)

\* C1: a run of main in which the history file is located, opened and read
\* without error prints the command-frequency mapping and then the number of
\* lines of the file, and exits successfully: the cached count main reads
\* after command_frequency is present and equals the number of lines.
C1_MainPrintsLineCount ==
    (main_pc # "start" /\ result = Ok) =>
        /\ main_pc = "exit_ok"
        /\ invocation_count = Some(NumLines(file))
        /\ stdout = <<ret, NumLines(file)>>

\* C2: after invocation_frequency returns Ok, invocation_count is Some(n)
\* with n the number of lines of the file, and n is the sum of the values of
\* the returned mapping.
C2_CountIsLinesIsSum ==
    (op = "invocation_frequency" /\ result = Ok) =>
        /\ invocation_count = Some(NumLines(file))
        /\ SumValues(ret) = NumLines(file)

C2_Witness ==
    /\ op = "invocation_frequency"
    /\ result = Ok
    /\ NumLines(file) >= 2
    /\ Cardinality(DOMAIN ret) < NumLines(file)

\* C3, as claimed: command_frequency counts every line under the first token
\* left after splitting the line on whitespace and dropping the empty tokens
\* and the tokens with '='.
C3_SplitOnWhitespace ==
    (op = "command_frequency" /\ result = Ok) =>
        ret = Tally(RawLines(file), Whitespace)

\* C3, amended: command_frequency counts every line under the first token
\* left after splitting the line on the space character alone and dropping
\* the empty tokens and the tokens with '='; a line with no token left is
\* counted under no key.
C3_SplitOnSpace ==
    (op = "command_frequency" /\ result = Ok) =>
        ret = Tally(RawLines(file), {SP})

C3_Witness ==
    /\ op = "command_frequency"
    /\ result = Ok
    /\ file = <<EQ, SP, "a", LF>>
    /\ ret = [k \in {<<"a">>} |-> 1]

\* C4: the mapping invocation_frequency returns has exactly the distinct
\* lines of the file as keys, unmodified, each with the number of lines
\* equal to it.
C4_KeysAreRawLines ==
    (op = "invocation_frequency" /\ result = Ok) =>
        LET ls == RawLines(file) IN
        /\ DOMAIN ret = {ls[i] : i \in 1..Len(ls)}
        /\ \A k \in DOMAIN ret : ret[k] = Cardinality({i \in 1..Len(ls) : ls[i] = k})

C4_Witness ==
    /\ op = "invocation_frequency"
    /\ result = Ok
    /\ \E k \in DOMAIN ret : k = <<SP>> /\ ret[k] = 2
    /\ <<"a", SP>> \in DOMAIN ret \/ Cardinality(DOMAIN ret) = 1

\* C5: the values of the mapping command_frequency returns sum to the number
\* of lines that yield a command token; a line with no token is in no
\* command bucket but is a key of the invocation frequency and is counted in
\* the line total invocation_frequency computes on the same file.
C5_SumIsTokenLines ==
    (op = "command_frequency" /\ result = Ok) =>
        LET ls == RawLines(file)
            without == {i \in 1..Len(ls) : FirstToken(ls[i], {SP}) = None}
            inv == invocation_frequency(invocation_count, shell_type, home,
                                        file_exists, file)
        IN /\ SumValues(ret) = Len(ls) - Cardinality(without)
           /\ inv.res = Ok
           /\ inv.invocation_count = Some(Len(ls))
           /\ \A i \in without : ls[i] \in DOMAIN inv.val /\ inv.val[ls[i]] >= 1
           /\ SumValues(inv.val) = SumValues(ret) + Cardinality(without)

C5_Witness ==
    /\ op = "command_frequency"
    /\ result = Ok
    /\ file = <<EQ, LF, LF, "a">>
    /\ SumValues(ret) = 1

\* what C6 asks of one returned sequence s and its frequency mapping f
Ranked(s, f) ==
    /\ Len(s) = Min(5, Cardinality(DOMAIN f))
    /\ \A i \in 1..Len(s) : s[i] \in DOMAIN f
    /\ \A i, j \in 1..Len(s) : i # j => s[i] # s[j]
    /\ \A i, j \in 1..Len(s) : i < j => f[s[i]] >= f[s[j]]
    /\ \A k \in DOMAIN f \ {s[i] : i \in 1..Len(s)} :
           \A i \in 1..Len(s) : f[k] <= f[s[i]]

\* C6: each sequence top_commands_and_invocations returns has length
\* min(5, k) for the k keys of its frequency mapping, holds no key twice,
\* has non-increasing counts, and leaves out no key with a strictly larger
\* count than a key it holds.
C6_TopFive ==
    (op = "top_commands_and_invocations" /\ result = Ok) =>
        LET ls == RawLines(file)
            invocations == [k \in {ls[i] : i \in 1..Len(ls)} |->
                               Cardinality({i \in 1..Len(ls) : ls[i] = k})]
            commands == Tally(ls, {SP})
        IN Ranked(ret[1], commands) /\ Ranked(ret[2], invocations)

C6_Witness ==
    /\ op = "top_commands_and_invocations"
    /\ result = Ok
    /\ Len(ret[1]) = 5
    /\ Len(ret[2]) = 5
    /\ Cardinality(DOMAIN Tally(RawLines(file), {SP})) = 6
    /\ \E i \in 1..4 : Tally(RawLines(file), {SP})[ret[1][i]]
                          > Tally(RawLines(file), {SP})[ret[1][i + 1]]

\* a step that is a call of one of the four operations
Call ==
    \/ CommandsRan
    \/ CommandFrequency
    \/ InvocationFrequency
    \/ TopCommandsAndInvocations(FsChanges(SessionBytes), MaxSessionLen)

C8_MissingFileIsOpenError ==
    [][(Call /\ home # NoHome /\ ~file_exists) =>
          result' = OpenError(find_history_path(shell_type, home).path)]_vars

\* C8, amended: when the home directory is found, the located path is valid
\* UTF-8 and the history file does not exist, each of the four operations
\* fails with OpenError carrying the located path; when the located path is
\* not valid UTF-8 it fails with InvalidUTF8.
C8_MissingFileTextPath ==
    /\ [][(Call /\ home = TextHome /\ ~file_exists) =>
            result' = OpenError(find_history_path(shell_type, home).path)]_vars
    /\ [][(Call /\ home = RawHome /\ ~file_exists) => result' = InvalidUTF8]_vars

C8_Witness ==
    /\ op = "top_commands_and_invocations"
    /\ ~file_exists
    /\ result = OpenError(<<TextHome, ".zsh_history">>)
    /\ invocation_count = None

\* C9: the cached invocation_count, if present, is the number of lines read
\* by the most recent successful aggregation call, and it is absent only if
\* no aggregation call has succeeded yet.
C9_CountReflectsLatestCall ==
    /\ invocation_count # None => invocation_count = agg_lines
    /\ invocation_count = None => agg_lines = None

\* the first read of a call of top_commands_and_invocations succeeds
FirstReadSucceeds == home # NoHome /\ file_exists /\ ~HasBad(file)

\* C10, as claimed: whenever one of the four operations returns an error,
\* invocation_count is what it was before the call.
C10_ErrorKeepsCount ==
    [][(Call /\ result' # Ok) => invocation_count' = invocation_count]_vars

\* C10, amended: whenever one of the four operations returns an error,
\* invocation_count is what it was before the call, except when
\* top_commands_and_invocations fails in its second read after its first
\* read succeeded: then invocation_count is Some(number of lines of the
\* first read).
C10_ErrorKeepsCountButTop ==
    [][(Call /\ result' # Ok) =>
          invocation_count' =
              IF op' = "top_commands_and_invocations" /\ FirstReadSucceeds
              THEN Some(NumLines(file)) ELSE invocation_count]_vars

C10_Witness ==
    /\ op = "top_commands_and_invocations"
    /\ result = ReadError
    /\ file = <<"a", BAD>>
    /\ invocation_count = Some(1)
    /\ agg_lines = Some(1)

====
